---- MODULE Spec2Model ----
(***************************************************************************)
(* fusewrap: list / mount / umount sshfs mounts named by ~/.ssh/config.    *)
(*                                                                         *)
(* Text is a sequence of one-character strings (longer literal chunks are  *)
(* used only in messages that nothing parses).  A file is a sequence of    *)
(* lines, each ending in "\n"; NoFile is one that cannot be opened.  A Path *)
(* is the sequence of its components below "/".  ssh_cfg and proc_mounts   *)
(* are the two files as they are when the program starts.                 *)
(***************************************************************************)
EXTENDS Integers, Sequences, FiniteSets, TLC

VARIABLES
    ssh_cfg,      \* ~/.ssh/config: File(lines) or NoFile
    proc_mounts,  \* /proc/mounts: File(lines) or NoFile
    dirs,         \* directories that exist under the mount base (set of Path)
    args,         \* the parsed command line (argparse Namespace)
    pc,           \* position of the running program
    fuse_wrap,    \* the FuseWrap object (built = FALSE before construction)
    events,       \* effects of the call in progress / last call, in order
    ret,          \* value returned by the last call (a list of host names)
    raised,       \* exception raised by the last call, or NoExc
    exit_code,    \* <<>> while the process runs, <<status>> once it has exited
    calls,        \* number of method calls made on the controller
    last,         \* the last method call made: its name and its host argument
    okMounts      \* hosts whose mount() on this controller ended with status 0

vars == <<ssh_cfg, proc_mounts, dirs, args, pc, fuse_wrap, events, ret, raised,
          exit_code, calls, last, okMounts>>

\* ---------------------------------------------------------------- bounds
MaxLines == 2
MaxCalls == 2
MaxStatus == 1
MaxReaderLines == 3

\* ------------------------------------------------------------------ text
IsSpace(c) == c \in {" ", "\t", "\n"}

RECURSIVE SplitFrom(_, _, _, _)
SplitFrom(s, i, cur, acc) ==
    IF i > Len(s)
    THEN IF cur = <<>> THEN acc ELSE Append(acc, cur)
    ELSE IF IsSpace(s[i])
         THEN SplitFrom(s, i + 1, <<>>, IF cur = <<>> THEN acc ELSE Append(acc, cur))
         ELSE SplitFrom(s, i + 1, Append(cur, s[i]), acc)

\* str.split(): the maximal runs of non-whitespace characters
split(s) == SplitFrom(s, 1, <<>>, <<>>)

startswith(s, prefix) ==
    Len(s) >= Len(prefix) /\ SubSeq(s, 1, Len(prefix)) = prefix

RECURSIVE JoinFrom(_, _, _)
JoinFrom(parts, i, sep) ==
    IF i > Len(parts) THEN <<>>
    ELSE (IF i = 1 THEN <<>> ELSE sep) \o parts[i] \o JoinFrom(parts, i + 1, sep)

\* sep.join(parts)
join(parts, sep) == JoinFrom(parts, 1, sep)

\* ----------------------------------------------------------------- paths
RECURSIVE PartsFrom(_, _, _, _)
PartsFrom(s, i, cur, acc) ==
    LET keep(c, a) == IF c = <<>> \/ c = <<".">> THEN a ELSE Append(a, c)
    IN IF i > Len(s) THEN keep(cur, acc)
       ELSE IF s[i] = "/"
            THEN PartsFrom(s, i + 1, <<>>, keep(cur, acc))
            ELSE PartsFrom(s, i + 1, Append(cur, s[i]), acc)

\* pathlib.Path(text) for an absolute text: its components
Path(s) == PartsFrom(s, 1, <<>>, <<>>)

\* root / name: an absolute name replaces the root
PathJoin(root, name) ==
    IF name # <<>> /\ name[1] = "/" THEN Path(name) ELSE root \o Path(name)

\* str(path)
PathStr(p) == IF p = <<>> THEN <<"/">> ELSE <<"/">> \o join(p, <<"/">>)

\* ------------------------------------------------------------- constants
\* a file that cannot be opened, and a file holding the given lines
NoFile == [readable |-> FALSE, lines |-> <<>>]
File(lines) == [readable |-> TRUE, lines |-> lines]

DEFAULT_SSH_CFG_PATH == <<"~/.ssh/config">>
DEFAULT_MOUNT_PATH == <<"/", "m">>

Host_kw == <<"H", "o", "s", "t">>
fuse_sshfs == <<"f", "u", "s", "e", ".", "s", "s", "h", "f", "s">>
web == <<"w", "e", "b">>
db == <<"d", "b">>
zz == <<"z", "z">>

\* --------------------------------------------------------- SSHostname
\* SSHostname.get_path
get_path(name, root) == PathJoin(root, name)

\* SSHostname.get_mount_root
get_mount_root(name) == name \o <<":", "/">>

RECURSIVE IsMountedFrom(_, _, _)
IsMountedFrom(path, fuses, i) ==
    IF i > Len(fuses) THEN FALSE
    ELSE IF path = fuses[i] THEN TRUE
    ELSE IsMountedFrom(path, fuses, i + 1)

\* is_mounted comparing the mount base itself, not the host's path under it
is_mounted_base(name, root, fuses) == IsMountedFrom(root, fuses, 1)

\* SSHostname.is_mounted
is_mounted(name, root, fuses) == IsMountedFrom(get_path(name, root), fuses, 1)

\* `hostname in hosts` (SSHostname.__eq__ compares the names)
HostIn(name, hosts) == \E i \in 1..Len(hosts) : hosts[i] = name

\* ------------------------------------------------------------ exceptions
Exc(type, msg) == [type |-> type, msg |-> msg]
NoExc == Exc("None", <<>>)
FuseWrapException(msg) == Exc("FuseWrapException", msg)
OSError == Exc("OSError", <<>>)
IndexError == Exc("IndexError", <<>>)
KeyboardInterrupt == Exc("KeyboardInterrupt", <<>>)

Ok(v) == [ok |-> TRUE, val |-> v, exc |-> NoExc]
Fail(e) == [ok |-> FALSE, val |-> <<>>, exc |-> e]

\* ------------------------------------------------------ FuseWrap readers
RECURSIVE FuseMountsFrom(_, _, _)
FuseMountsFrom(lines, i, result) ==
    IF i > Len(lines) THEN Ok(result)
    ELSE LET tokens == split(lines[i])
         IN IF Len(tokens) < 3 THEN Fail(IndexError)
            ELSE FuseMountsFrom(lines, i + 1,
                     IF tokens[3] = fuse_sshfs
                     THEN Append(result, Path(tokens[2]))
                     ELSE result)

\* FuseWrap._get_fuse_mounts
_get_fuse_mounts(file) ==
    IF ~file.readable THEN Fail(OSError) ELSE FuseMountsFrom(file.lines, 1, <<>>)

RECURSIVE HostnamesFrom(_, _, _)
HostnamesFrom(lines, i, result) ==
    IF i > Len(lines) THEN Ok(result)
    ELSE IF startswith(lines[i], Host_kw)
         THEN LET tokens == split(lines[i])
              IN IF Len(tokens) < 2 THEN Fail(IndexError)
                 ELSE HostnamesFrom(lines, i + 1, Append(result, tokens[2]))
         ELSE HostnamesFrom(lines, i + 1, result)

\* FuseWrap._get_hostnames
_get_hostnames(file) ==
    IF ~file.readable THEN Fail(OSError) ELSE HostnamesFrom(file.lines, 1, <<>>)

\* ------------------------------------------------------------- FuseWrap
NoObj == [built |-> FALSE, mount_path |-> <<>>, ssh_cfg_path |-> <<>>,
          fuse_mounts |-> <<>>, hosts |-> <<>>]

\* FuseWrap.__init__: the snapshot is read first, then the alias list
NewFuseWrap(mount_dir_path, mounts_file, cfg_file) ==
    LET fuse_mounts == _get_fuse_mounts(mounts_file)
        hosts == _get_hostnames(cfg_file)
    IN IF ~fuse_mounts.ok THEN Fail(fuse_mounts.exc)
       ELSE IF ~hosts.ok THEN Fail(hosts.exc)
       ELSE Ok([built |-> TRUE,
                mount_path |-> Path(mount_dir_path),
                ssh_cfg_path |-> DEFAULT_SSH_CFG_PATH,
                fuse_mounts |-> fuse_mounts.val,
                hosts |-> hosts.val])

\* _check_host that accepts every name
_check_host_any(fw, hostname) == NoExc

\* FuseWrap._check_host: the exception it raises, NoExc when it returns
_check_host(fw, hostname) ==
    IF ~HostIn(hostname, fw.hosts)
    THEN FuseWrapException(<<"There is no ">> \o hostname \o <<" hostname in ">>
                           \o fw.ssh_cfg_path)
    ELSE NoExc

\* get_mounted with the test inverted
get_mounted_inverted(fw) ==
    SelectSeq(fw.hosts, LAMBDA h : ~is_mounted(h, fw.mount_path, fw.fuse_mounts))

\* FuseWrap.get_mounted
get_mounted(fw) ==
    SelectSeq(fw.hosts, LAMBDA h : is_mounted(h, fw.mount_path, fw.fuse_mounts))

\* get_unmounted that finds nothing
get_unmounted_none(fw) == <<>>

\* FuseWrap.get_unmounted
get_unmounted(fw) ==
    SelectSeq(fw.hosts, LAMBDA h : ~is_mounted(h, fw.mount_path, fw.fuse_mounts))

AlreadyMounted(host, mount_point) ==
    FuseWrapException(<<"Host ">> \o host \o <<" already mounted in ">>
                      \o PathStr(mount_point))

AlreadyUnmounted(host) ==
    FuseWrapException(<<"Host ">> \o host \o <<" already unmounted">>)

\* one effect of a call: a print, an OS call or a child process step;
\* status 0 is success (for communicate: the child's exit status)
Ev(kind, argv, status) == [ev |-> kind, argv |-> argv, status |-> status]

\* print('"{}"'.format(' '.join(args)))
PrintArgs(argv) == Ev("stdout", <<(<<"\"">> \o join(argv, <<" ">>) \o <<"\"">>)>>, 0)

\* the two argument vectors with a slip: operands swapped, flag forgotten
mount_args_swapped(host, mount_point) ==
    <<(<<"sshfs">>), PathStr(mount_point), get_mount_root(host)>>

umount_args_no_flag(mount_point) == <<(<<"fusermount">>), PathStr(mount_point)>>

\* the argument vectors of the two child processes
mount_args(host, mount_point) ==
    <<(<<"sshfs">>), get_mount_root(host), PathStr(mount_point)>>

umount_args(mount_point) ==
    <<(<<"fusermount">>), (<<"-u">>), PathStr(mount_point)>>

Call(op, host) == [op |-> op, host |-> host]

\* mount that records the new mount in the snapshot
mount_self_refreshed(host) ==
    [fuse_wrap EXCEPT !.fuse_mounts = Append(@, get_path(host, fuse_wrap.mount_path))]

\* self after mount(host) / umount(host): neither assigns an attribute
mount_self(host) == fuse_wrap

umount_self(host) == fuse_wrap

\* FuseWrap.mount
mount(host) ==
    LET fw == fuse_wrap
        mount_point == get_path(host, fw.mount_path)
        argv == mount_args(host, mount_point)
        mk == Ev("makedirs", <<PathStr(mount_point)>>, 0)
    IN /\ fuse_wrap' = mount_self(host)
       /\ last' = Call("mount", host)
       /\ ret' = <<>>
       /\ IF _check_host(fw, host) # NoExc
          THEN /\ raised' = _check_host(fw, host)
               /\ events' = <<>>
               /\ UNCHANGED <<dirs, okMounts>>
          ELSE IF HostIn(host, get_mounted(fw))
          THEN /\ raised' = AlreadyMounted(host, mount_point)
               /\ events' = <<>>
               /\ UNCHANGED <<dirs, okMounts>>
          ELSE \/ /\ mount_point \notin dirs       \* makedirs fails
                  /\ events' = <<Ev("makedirs", <<PathStr(mount_point)>>, 1)>>
                  /\ raised' = OSError
                  /\ UNCHANGED <<dirs, okMounts>>
               \/ /\ dirs' = dirs \cup {mount_point}   \* sshfs cannot be started
                  /\ events' = <<mk, PrintArgs(argv), Ev("Popen", argv, 1)>>
                  /\ raised' = OSError
                  /\ UNCHANGED okMounts
               \/ /\ dirs' = dirs \cup {mount_point}   \* interrupted while waiting
                  /\ events' = <<mk, PrintArgs(argv), Ev("Popen", argv, 0)>>
                  /\ raised' = KeyboardInterrupt
                  /\ UNCHANGED okMounts
               \/ \E status \in 0..MaxStatus :
                  /\ dirs' = dirs \cup {mount_point}
                  /\ events' = <<mk, PrintArgs(argv), Ev("Popen", argv, 0),
                                 Ev("communicate", argv, status)>>
                  /\ raised' = NoExc
                  /\ okMounts' = IF status = 0 THEN okMounts \cup {host} ELSE okMounts

\* FuseWrap.umount
umount(host) ==
    LET fw == fuse_wrap
        mount_point == get_path(host, fw.mount_path)
        argv == umount_args(mount_point)
        run(status) == <<PrintArgs(argv), Ev("Popen", argv, 0),
                         Ev("communicate", argv, status)>>
    IN /\ fuse_wrap' = umount_self(host)
       /\ last' = Call("umount", host)
       /\ ret' = <<>>
       /\ UNCHANGED okMounts
       /\ IF _check_host(fw, host) # NoExc
          THEN /\ raised' = _check_host(fw, host)
               /\ events' = <<>>
               /\ UNCHANGED dirs
          ELSE IF HostIn(host, get_unmounted(fw))
          THEN /\ raised' = AlreadyUnmounted(host)
               /\ events' = <<>>
               /\ UNCHANGED dirs
          ELSE \/ /\ events' = <<PrintArgs(argv), Ev("Popen", argv, 1)>>
                  /\ raised' = OSError             \* fusermount cannot be started
                  /\ UNCHANGED dirs
               \/ /\ events' = <<PrintArgs(argv), Ev("Popen", argv, 0)>>
                  /\ raised' = KeyboardInterrupt   \* interrupted while waiting
                  /\ UNCHANGED dirs
               \/ \E status \in 0..MaxStatus :
                  \/ /\ mount_point \in dirs       \* rmdir succeeds
                     /\ events' = Append(run(status),
                                         Ev("rmdir", <<PathStr(mount_point)>>, 0))
                     /\ dirs' = dirs \ {mount_point}
                     /\ raised' = NoExc
                  \/ /\ events' = Append(run(status),  \* missing, busy or not empty
                                         Ev("rmdir", <<PathStr(mount_point)>>, 1))
                     /\ raised' = OSError
                     /\ UNCHANGED dirs

\* ----------------------------------------------------------- environment
SeqsUpTo(S, n) == UNION {[1..k -> S] : k \in 0..n}

RECURSIVE Pick(_, _, _)
\* the lines of `lines` whose index is in `keep`, in file order
Pick(lines, keep, i) ==
    IF i > Len(lines) THEN <<>>
    ELSE (IF i \in keep THEN <<lines[i]>> ELSE <<>>) \o Pick(lines, keep, i + 1)

Line(words) == join(words, <<" ">>) \o <<"\n">>

HostName_kw == <<"H", "o", "s", "t", "N", "a", "m", "e">>

\* lines of an ssh config
L_web == Line(<<Host_kw, web>>)
L_db == Line(<<Host_kw, db>>)
L_indented == <<" ", " ">> \o Line(<<HostName_kw, zz>>)
L_hostname == Line(<<HostName_kw, zz>>)
L_two == Line(<<Host_kw, web, db>>)
L_bare == Line(<<Host_kw>>)
L_comment == Line(<<(<<"#">>), Host_kw, zz>>)
L_blank == <<"\n">>

CfgLines == {L_web, L_db, L_indented, L_bare}
ReaderLines == {L_web, L_db, L_indented, L_hostname, L_two, L_bare, L_comment,
                L_blank}

\* lines of /proc/mounts: device, mount point, type
M_line(dev, point, type) == Line(<<dev, point, type>>)
MountLines ==
    <<M_line(<<"s", "d", "a">>, PathStr(<<(<<"m">>), web>>), <<"e", "x", "t", "4">>),
      M_line(get_mount_root(web), PathStr(<<(<<"m">>), web>>), fuse_sshfs),
      M_line(get_mount_root(db), PathStr(<<(<<"m">>), db>>), fuse_sshfs)>>

CfgFiles == {File(l) : l \in SeqsUpTo(CfgLines, MaxLines)} \cup {NoFile}
MountFiles ==
    {File(Pick(MountLines, keep, 1)) : keep \in SUBSET (1..Len(MountLines))}
    \cup {NoFile}

\* every mount point of the table is an existing directory
MountPoints(file) == {Path(split(file.lines[i])[2]) : i \in 1..Len(file.lines)}

HostArgs == {web, db, zz}

\* argparse Namespaces: job is the subcommand's function, "none" without one
Namespace(job, hostname, all) ==
    [job |-> job, hostname |-> hostname, all |-> all,
     mount_dir_path |-> DEFAULT_MOUNT_PATH]
ArgSets ==
    {Namespace("none", <<>>, FALSE)}
    \cup {Namespace("job_list", <<>>, a) : a \in BOOLEAN}
    \cup {Namespace(j, h, FALSE) : j \in {"job_mount", "job_umount"}, h \in HostArgs}

\* --------------------------------------------------- the command line tool
Init ==
    /\ ssh_cfg \in CfgFiles
    /\ proc_mounts \in MountFiles
    /\ dirs = MountPoints(proc_mounts)
    /\ args \in ArgSets
    /\ pc = "main"
    /\ fuse_wrap = NoObj
    /\ events = <<>>
    /\ ret = <<>>
    /\ raised = NoExc
    /\ exit_code = <<>>
    /\ calls = 0
    /\ last = Call("none", <<>>)
    /\ okMounts = {}

\* main: no subcommand: print the help and exit(1)
NoJob ==
    /\ pc = "main"
    /\ args.job = "none"
    /\ events' = <<Ev("stdout", <<(<<"usage: fusewrap">>)>>, 0)>>
    /\ exit_code' = <<1>>
    /\ pc' = "exited"
    /\ UNCHANGED <<ssh_cfg, proc_mounts, dirs, args, fuse_wrap, ret, raised, calls,
                   last, okMounts>>

\* fuse_wrap = FuseWrap(args), the first statement of every job
Construct ==
    /\ pc = "main"
    /\ args.job # "none"
    /\ LET new == NewFuseWrap(args.mount_dir_path, proc_mounts, ssh_cfg)
       IN /\ fuse_wrap' = IF new.ok THEN new.val ELSE fuse_wrap
          /\ raised' = new.exc
          /\ pc' = IF new.ok THEN "job" ELSE "except"
    /\ UNCHANGED <<ssh_cfg, proc_mounts, dirs, args, events, ret, exit_code, calls,
                   last, okMounts>>

ListLine(fw, mnt) ==
    Ev("stdout", <<mnt \o <<" -> ">> \o PathStr(fw.mount_path) \o <<"/">> \o mnt>>, 0)

EmptyLine(mnt) == Ev("stdout", <<mnt \o <<" -> empty">>>>, 0)

\* job_list
job_list ==
    /\ pc = "job"
    /\ args.job = "job_list"
    /\ LET mounted == get_mounted(fuse_wrap)
           unmounted == get_unmounted(fuse_wrap)
       IN events' = [i \in 1..Len(mounted) |-> ListLine(fuse_wrap, mounted[i])]
                    \o (IF args.all
                        THEN [i \in 1..Len(unmounted) |-> EmptyLine(unmounted[i])]
                        ELSE <<>>)
    /\ calls' = calls + 1
    /\ last' = Call("list", <<>>)
    /\ pc' = "except"
    /\ UNCHANGED <<ssh_cfg, proc_mounts, dirs, args, fuse_wrap, ret, raised,
                   exit_code, okMounts>>

\* job_mount
job_mount ==
    /\ pc = "job"
    /\ args.job = "job_mount"
    /\ mount(args.hostname)
    /\ calls' = calls + 1
    /\ pc' = "except"
    /\ UNCHANGED <<ssh_cfg, proc_mounts, args, exit_code>>

\* job_umount
job_umount ==
    /\ pc = "job"
    /\ args.job = "job_umount"
    /\ umount(args.hostname)
    /\ calls' = calls + 1
    /\ pc' = "except"
    /\ UNCHANGED <<ssh_cfg, proc_mounts, args, exit_code>>

\* except clauses that leave out FuseWrapException
Caught_interrupt_only(exc) == exc.type = "KeyboardInterrupt"

\* the except clauses of main
Caught(exc) == exc.type \in {"FuseWrapException", "KeyboardInterrupt"}

\* what a caught exception prints
Report(exc) ==
    IF exc.type = "FuseWrapException"
    THEN Ev("stderr", <<(<<"ERR: ">> \o exc.msg)>>, 0)
    ELSE Ev("stdout", <<(<<"Job canceled">>)>>, 0)

\* an exit status that ignores the exception
ExitStatus_zero(exc) == 0

\* exit(main()): None is status 0, an exception that leaves main is status 1
ExitStatus(exc) == IF exc = NoExc THEN 0 ELSE 1

\* return from the job, or one of the except clauses; then exit(main())
Finish ==
    /\ pc = "except"
    /\ IF raised = NoExc
       THEN /\ events' = events
            /\ raised' = NoExc
       ELSE IF Caught(raised)
       THEN /\ events' = Append(events, Report(raised))
            /\ raised' = NoExc
       ELSE /\ events' = Append(events, Ev("stderr", <<(<<"Traceback">>)>>, 0))
            /\ raised' = raised
    /\ exit_code' = <<ExitStatus(raised')>>
    /\ pc' = "exited"
    /\ UNCHANGED <<ssh_cfg, proc_mounts, dirs, args, fuse_wrap, ret, calls, last,
                   okMounts>>

Next == NoJob \/ Construct \/ job_list \/ job_mount \/ job_umount \/ Finish

Spec == Init /\ [][Next]_vars

\* ------------------------------------------ the controller used as an object
InitApi ==
    /\ ssh_cfg \in CfgFiles
    /\ proc_mounts \in MountFiles
    /\ dirs = MountPoints(proc_mounts)
    /\ args = Namespace("none", <<>>, FALSE)
    /\ pc = "new"
    /\ fuse_wrap = NoObj
    /\ events = <<>>
    /\ ret = <<>>
    /\ raised = NoExc
    /\ exit_code = <<>>
    /\ calls = 0
    /\ last = Call("none", <<>>)
    /\ okMounts = {}

\* FuseWrap(args) called by a user of the class
ApiConstruct ==
    /\ pc = "new"
    /\ LET new == NewFuseWrap(args.mount_dir_path, proc_mounts, ssh_cfg)
       IN /\ fuse_wrap' = IF new.ok THEN new.val ELSE fuse_wrap
          /\ raised' = new.exc
          /\ pc' = IF new.ok THEN "object" ELSE "failed"
    /\ UNCHANGED <<ssh_cfg, proc_mounts, dirs, args, events, ret, exit_code, calls,
                   last, okMounts>>

ApiGetMounted ==
    /\ pc = "object"
    /\ calls < MaxCalls
    /\ ret' = get_mounted(fuse_wrap)
    /\ last' = Call("get_mounted", <<>>)
    /\ events' = <<>>
    /\ raised' = NoExc
    /\ calls' = calls + 1
    /\ UNCHANGED <<ssh_cfg, proc_mounts, dirs, args, pc, fuse_wrap, exit_code,
                   okMounts>>

ApiGetUnmounted ==
    /\ pc = "object"
    /\ calls < MaxCalls
    /\ ret' = get_unmounted(fuse_wrap)
    /\ last' = Call("get_unmounted", <<>>)
    /\ events' = <<>>
    /\ raised' = NoExc
    /\ calls' = calls + 1
    /\ UNCHANGED <<ssh_cfg, proc_mounts, dirs, args, pc, fuse_wrap, exit_code,
                   okMounts>>

ApiMount ==
    /\ pc = "object"
    /\ calls < MaxCalls
    /\ \E host \in HostArgs : mount(host)
    /\ calls' = calls + 1
    /\ UNCHANGED <<ssh_cfg, proc_mounts, args, pc, exit_code>>

ApiUmount ==
    /\ pc = "object"
    /\ calls < MaxCalls
    /\ \E host \in HostArgs : umount(host)
    /\ calls' = calls + 1
    /\ UNCHANGED <<ssh_cfg, proc_mounts, args, pc, exit_code>>

NextApi == ApiConstruct \/ ApiGetMounted \/ ApiGetUnmounted \/ ApiMount \/ ApiUmount

SpecApi == InitApi /\ [][NextApi]_vars

\* ------------------------------------------------- the config reader alone
InitReader ==
    /\ ssh_cfg \in {File(l) : l \in SeqsUpTo(ReaderLines, MaxReaderLines)}
    /\ proc_mounts = File(<<>>)
    /\ dirs = {}
    /\ args = Namespace("none", <<>>, FALSE)
    /\ pc = "read"
    /\ fuse_wrap = NoObj
    /\ events = <<>>
    /\ ret = <<>>
    /\ raised = NoExc
    /\ exit_code = <<>>
    /\ calls = 0
    /\ last = Call("none", <<>>)
    /\ okMounts = {}

\* FuseWrap._get_hostnames(path) called on the file
ReadHostnames ==
    /\ pc = "read"
    /\ LET got == _get_hostnames(ssh_cfg)
       IN /\ ret' = got.val
          /\ raised' = got.exc
    /\ pc' = "done"
    /\ UNCHANGED <<ssh_cfg, proc_mounts, dirs, args, fuse_wrap, events, exit_code,
                   calls, last, okMounts>>

SpecReader == InitReader /\ [][ReadHostnames]_vars

\* ================================================================ claims
\* the records of the controller's snapshot, and "mount_base/alias is one of them"
Records(fw) == {fw.fuse_mounts[i] : i \in 1..Len(fw.fuse_mounts)}
AtRecord(fw, h) == (fw.mount_path \o <<h>>) \in Records(fw)
Configured(fw, h) == \E i \in 1..Len(fw.hosts) : fw.hosts[i] = h

\* the three errors the tool raises, told apart by their messages
IsUnknownHost(e, h) ==
    /\ e.type = "FuseWrapException"
    /\ startswith(e.msg, <<"There is no ">> \o h \o <<" hostname in ">>)
IsAlreadyMounted(e, h) ==
    /\ e.type = "FuseWrapException"
    /\ startswith(e.msg, <<"Host ">> \o h \o <<" already mounted in ">>)
IsAlreadyUnmounted(e, h) ==
    /\ e.type = "FuseWrapException"
    /\ e.msg = <<"Host ">> \o h \o <<" already unmounted">>

\* this step is the call op(h) on the controller
CallStep(op, h) == calls' = calls + 1 /\ last' = Call(op, h)

\* C1: get_mounted() returns exactly the configured aliases, in config order,
\* whose mount root mount_base/alias is the path of a record of the snapshot,
\* get_unmounted() exactly the others; the two are disjoint and together they
\* are the whole alias list.
C1_Partition ==
    fuse_wrap.built =>
        LET fw == fuse_wrap
            m == get_mounted(fw)
            u == get_unmounted(fw)
        IN /\ last.op = "get_mounted" =>
                  ret = SelectSeq(fw.hosts, LAMBDA h : AtRecord(fw, h))
           /\ last.op = "get_unmounted" =>
                  ret = SelectSeq(fw.hosts, LAMBDA h : ~AtRecord(fw, h))
           /\ \A i \in 1..Len(fw.hosts) :
                  /\ AtRecord(fw, fw.hosts[i]) <=> Configured([hosts |-> m], fw.hosts[i])
                  /\ ~AtRecord(fw, fw.hosts[i]) <=> Configured([hosts |-> u], fw.hosts[i])
           /\ m = SelectSeq(fw.hosts, LAMBDA h : Configured([hosts |-> m], h))
           /\ u = SelectSeq(fw.hosts, LAMBDA h : Configured([hosts |-> u], h))
           /\ Len(m) + Len(u) = Len(fw.hosts)
           /\ (fw.hosts = <<web, db>> /\ fw.fuse_mounts = <<>>) =>
                  (m = <<>> /\ u = <<web, db>>)
           /\ (fw.hosts = <<web, db>> /\ fw.fuse_mounts = <<(<<(<<"m">>), web>>)>>) =>
                  m = <<web>>

C1_Witness ==
    /\ fuse_wrap.built
    /\ last.op = "get_mounted"
    /\ fuse_wrap.hosts = <<web, db>>
    /\ ret = <<web>>

\* C2: mount(alias) of an alias that is not configured raises the unknown-host
\* error, creates no directory and spawns no child, whatever the snapshot holds.
C2_UnknownMount ==
    [][\A h \in HostArgs :
          (CallStep("mount", h) /\ ~Configured(fuse_wrap, h)) =>
              (IsUnknownHost(raised', h) /\ events' = <<>> /\ dirs' = dirs)]_vars

C2_Witness ==
    /\ last = Call("mount", zz)
    /\ ~Configured(fuse_wrap, zz)
    /\ fuse_wrap.fuse_mounts # <<>>
    /\ raised.type = "FuseWrapException"

\* C3: mount(alias) of a configured alias whose mount root is in the snapshot
\* raises the already-mounted error, spawns no child and creates no directory.
C3_AlreadyMounted ==
    [][\A h \in HostArgs :
          (CallStep("mount", h) /\ Configured(fuse_wrap, h) /\ AtRecord(fuse_wrap, h)) =>
              (IsAlreadyMounted(raised', h) /\ events' = <<>> /\ dirs' = dirs)]_vars

C3_Witness ==
    /\ last = Call("mount", web)
    /\ Configured(fuse_wrap, web)
    /\ AtRecord(fuse_wrap, web)
    /\ raised.type = "FuseWrapException"

\* C4: umount(alias) raises the unknown-host error for an alias that is not
\* configured and the already-unmounted error for a configured alias whose
\* mount root is not in the snapshot; in both cases nothing is spawned and no
\* directory is removed.
C4_UmountRefused ==
    [][\A h \in HostArgs :
          /\ (CallStep("umount", h) /\ ~Configured(fuse_wrap, h)) =>
                 (IsUnknownHost(raised', h) /\ events' = <<>> /\ dirs' = dirs)
          /\ (CallStep("umount", h) /\ Configured(fuse_wrap, h)
                 /\ ~AtRecord(fuse_wrap, h)) =>
                 (IsAlreadyUnmounted(raised', h) /\ events' = <<>> /\ dirs' = dirs)]_vars

C4_Witness ==
    /\ last = Call("umount", db)
    /\ Configured(fuse_wrap, db)
    /\ ~AtRecord(fuse_wrap, db)
    /\ <<(<<"m">>), db>> \in dirs
    /\ raised.type = "FuseWrapException"

\* "mount_base/alias" as text, and the events of a given kind
RootText(h) == DEFAULT_MOUNT_PATH \o <<"/">> \o h
RootPath(fw, h) == fw.mount_path \o <<h>>
Positions(e, kind) == {i \in 1..Len(e) : e[i].ev = kind}
ErrLines(e) ==
    {i \in 1..Len(e) : e[i].ev = "stderr" /\ startswith(e[i].argv[1], <<"ERR: ">>)}

\* C5: mount(alias) of a configured alias that is not in the snapshot creates
\* the mount root (no error when it exists), then spawns sshfs with
\* (alias:/, mount_base/alias), then waits; it returns normally for every exit
\* status of the child: the run ends with status 0, nothing on stderr and the
\* directory left in place.
C5_MountSequence ==
    /\ [][\A h \in HostArgs :
            (CallStep("mount", h) /\ Configured(fuse_wrap, h) /\ ~AtRecord(fuse_wrap, h)) =>
                LET e == events'
                    argv == <<(<<"sshfs">>), h \o <<":", "/">>, RootText(h)>>
                IN /\ Len(e) >= 1
                   /\ e[1].ev = "makedirs" /\ e[1].argv = <<RootText(h)>>
                   /\ RootPath(fuse_wrap, h) \in dirs => e[1].status = 0
                   /\ e[1].status # 0 => (Len(e) = 1 /\ raised' # NoExc /\ dirs' = dirs)
                   /\ e[1].status = 0 =>
                          /\ Len(e) >= 3
                          /\ RootPath(fuse_wrap, h) \in dirs'
                          /\ e[3].ev = "Popen" /\ e[3].argv = argv
                   /\ Positions(e, "makedirs") = {1}
                   /\ Positions(e, "Popen") \subseteq {3}
                   /\ Positions(e, "communicate") \subseteq {4}
                   /\ Positions(e, "communicate") = {4} => (e[3].status = 0 /\ Len(e) = 4)
                   /\ raised' = NoExc <=> Positions(e, "communicate") = {4}]_vars
    /\ [](\A h \in HostArgs :
            (pc = "exited" /\ last = Call("mount", h)
                /\ Positions(events, "communicate") # {}) =>
                (/\ exit_code = <<0>>
                 /\ raised = NoExc
                 /\ Positions(events, "stderr") = {}
                 /\ RootPath(fuse_wrap, h) \in dirs))

C5_Witness ==
    /\ pc = "exited"
    /\ last = Call("mount", web)
    /\ Len(events) = 4
    /\ events[4].ev = "communicate" /\ events[4].status = 1
    /\ exit_code = <<0>>

\* C6: umount(alias) of a configured alias that is in the snapshot spawns
\* fusermount -u mount_base/alias, waits, and only then removes the mount
\* root, whatever the child's exit status; a removal that fails raises an
\* error that is not one of the tool's own and leaves main unhandled.
C6_UmountSequence ==
    /\ [][\A h \in HostArgs :
            (CallStep("umount", h) /\ Configured(fuse_wrap, h) /\ AtRecord(fuse_wrap, h)) =>
                LET e == events'
                    argv == <<(<<"fusermount">>), (<<"-u">>), RootText(h)>>
                IN /\ Len(e) >= 2
                   /\ e[2].ev = "Popen" /\ e[2].argv = argv
                   /\ Positions(e, "Popen") = {2}
                   /\ Positions(e, "communicate") \subseteq {3}
                   /\ Positions(e, "rmdir") \subseteq {4}
                   /\ Positions(e, "communicate") = {3} =>
                          /\ e[2].status = 0
                          /\ Len(e) = 4
                          /\ e[4].ev = "rmdir" /\ e[4].argv = <<RootText(h)>>
                          /\ e[4].status = 0 =>
                                 (raised' = NoExc /\ dirs' = dirs \ {RootPath(fuse_wrap, h)})
                          /\ e[4].status # 0 =>
                                 (raised'.type = "OSError" /\ dirs' = dirs)
                   /\ Positions(e, "communicate") = {} => dirs' = dirs]_vars
    /\ [](\A h \in HostArgs :
            (pc = "exited" /\ last = Call("umount", h)
                /\ \E i \in Positions(events, "rmdir") : events[i].status # 0) =>
                (/\ raised.type = "OSError"
                 /\ exit_code = <<1>>
                 /\ ErrLines(events) = {}))

C6_Witness ==
    /\ pc = "exited"
    /\ last = Call("umount", web)
    /\ Len(events) >= 4
    /\ events[3].ev = "communicate" /\ events[3].status = 1
    /\ events[4].ev = "rmdir" /\ events[4].status = 1
    /\ raised.type = "OSError"

\* the last call failed with one of the three errors the tool raises itself
ToolError ==
    /\ fuse_wrap.built
    /\ \/ last.op = "mount" /\ ~Configured(fuse_wrap, last.host)
       \/ last.op = "mount" /\ AtRecord(fuse_wrap, last.host)
       \/ last.op = "umount" /\ ~Configured(fuse_wrap, last.host)
       \/ last.op = "umount" /\ ~AtRecord(fuse_wrap, last.host)
\* the config file or the mount table cannot be opened
ReadError == ~proc_mounts.readable \/ ~ssh_cfg.readable
\* the handler printed one line ERR: <message> and nothing left main
Recovered ==
    /\ raised = NoExc
    /\ Len(events) = 1
    /\ ErrLines(events) = {1}
    /\ exit_code = <<0>>

IsDeclaration(line) == startswith(line, Host_kw) /\ split(line)[1] = Host_kw

RECURSIVE Declared(_, _)
\* the token after the keyword of every declaration, in file order
Declared(lines, i) ==
    IF i > Len(lines) THEN <<>>
    ELSE (IF IsDeclaration(lines[i]) /\ Len(split(lines[i])) >= 2
          THEN <<split(lines[i])[2]>> ELSE <<>>) \o Declared(lines, i + 1)

\* C9: the reader returns, in file order, one alias per line that begins with
\* the Host keyword, the token after the keyword; other lines (indented ones,
\* other keywords such as HostName, comments, blank lines) add nothing, and a
\* declaration never makes the read fail.
C9_Reader ==
    pc = "done" => (raised = NoExc /\ ret = Declared(ssh_cfg.lines, 1))

\* C10: the snapshot and the alias list are those read at construction and no
\* call changes them, so get_mounted() and get_unmounted() keep returning what
\* they returned at first; a second mount(alias) after a successful one is not
\* refused as already mounted and spawns sshfs again.
C10_Frozen ==
    /\ [](fuse_wrap.built =>
            fuse_wrap = NewFuseWrap(args.mount_dir_path, proc_mounts, ssh_cfg).val)
    /\ [][fuse_wrap.built =>
            /\ fuse_wrap' = fuse_wrap
            /\ get_mounted(fuse_wrap') = get_mounted(fuse_wrap)
            /\ get_unmounted(fuse_wrap') = get_unmounted(fuse_wrap)]_vars
    /\ [][\A h \in HostArgs :
            (CallStep("mount", h) /\ h \in okMounts) =>
                /\ ~IsAlreadyMounted(raised', h)
                /\ Len(events') >= 3
                /\ events'[3].ev = "Popen"
                /\ events'[3].argv = <<(<<"sshfs">>), h \o <<":", "/">>, RootText(h)>>]_vars

C10_Witness ==
    /\ calls = 2
    /\ last = Call("mount", web)
    /\ web \in okMounts
    /\ Len(events) = 4
    /\ events[4].ev = "communicate" /\ events[4].status = 1
    /\ raised = NoExc

====
